---------------------------- MODULE Spec2Model ----------------------------
(***************************************************************************)
(* mathexpr: tokenizer -> parser -> evaluator, and the Display rendering   *)
(* of the expression tree.                                                 *)
(*                                                                         *)
(* A character is a one-character string and a text is a sequence of       *)
(* characters.  An f64 is modelled by the rational it denotes, a pair      *)
(* <<n, d>> in lowest terms with d > 0; the pair Inexact stands for a      *)
(* float the model does not track (the rounded, overflowed or non-finite   *)
(* result of an operation).  Results are tuples <<"Ok", x>>, <<"Err", e>>. *)
(*                                                                         *)
(* The parser is modelled twice: as the functions parse_primary and        *)
(* parse_expression, taken in one step by the pipeline, and as a machine   *)
(* that runs the same code one call, return or loop iteration at a time on *)
(* the stack calls of its pending calls.                                   *)
(***************************************************************************)
EXTENDS Integers, Sequences, FiniteSets, TLC

VARIABLES input, phase, tokens, ast, value, rendered, reparsed, calls

vars == <<input, phase, tokens, ast, value, rendered, reparsed, calls>>

(***************************************************************************)
(* Bounds of the model.                                                    *)
(***************************************************************************)
\* longest token-level input enumerated exhaustively
MaxToks == 3
\* longest character-level input enumerated exhaustively
MaxChars == 4
\* largest numerator or denominator the model tracks exactly
MaxMag == 30000

(***************************************************************************)
(* Numbers.                                                                *)
(***************************************************************************)
Abs(x) == IF x < 0 THEN -x ELSE x

RECURSIVE GCD(_, _)
GCD(a, b) == IF b = 0 THEN a ELSE GCD(b, a % b)

Inexact == <<0, 0>>

\* f64::INFINITY
Infinity == <<1, 0>>

\* n/d in lowest terms
Rat(n, d) ==
    IF d = 0 THEN Inexact
    ELSE LET g == GCD(Abs(n), Abs(d))
             s == IF d < 0 THEN -1 ELSE 1
         IN <<(s * n) \div g, (s * d) \div g>>

IsExactNum(x) == x[2] # 0

RECURSIVE IsPow2(_)
IsPow2(d) == IF d = 1 THEN TRUE ELSE IF d % 2 # 0 THEN FALSE ELSE IsPow2(d \div 2)

\* a float whose value the rational gives exactly (a dyadic rational)
IsDyadic(x) == IsExactNum(x) /\ IsPow2(x[2])

IsZero(x) == IsExactNum(x) /\ x[1] = 0

RECURSIVE Pow10(_)
Pow10(k) == IF k = 0 THEN 1 ELSE 10 * Pow10(k - 1)

(***************************************************************************)
(* Characters.                                                             *)
(***************************************************************************)
Digits == {"0", "1", "2", "3", "4", "5", "6", "7", "8", "9"}

DigitVal(ch) ==
    CASE ch = "0" -> 0 [] ch = "1" -> 1 [] ch = "2" -> 2 [] ch = "3" -> 3
      [] ch = "4" -> 4 [] ch = "5" -> 5 [] ch = "6" -> 6 [] ch = "7" -> 7
      [] ch = "8" -> 8 [] ch = "9" -> 9

DigitChar(k) == <<"0", "1", "2", "3", "4", "5", "6", "7", "8", "9">>[k + 1]

IsWhitespace(ch) == ch \in {" ", "\t", "\n"}

\* the characters of "+-*/^()"
SymbolChars == {"+", "-", "*", "/", "^", "(", ")"}

(***************************************************************************)
(* Operator (token/mod.rs).                                                *)
(***************************************************************************)
Operators == {"Add", "Subtract", "Multiply", "Divide", "Power"}

\* mutant: Multiply and Divide given the precedence of Add
precedence_flat(op) ==
    CASE op \in {"Add", "Subtract"} -> 1
      [] op \in {"Multiply", "Divide"} -> 1
      [] op = "Power" -> 3

precedence(op) ==
    CASE op \in {"Add", "Subtract"} -> 1
      [] op \in {"Multiply", "Divide"} -> 2
      [] op = "Power" -> 3

symbol(op) ==
    CASE op = "Add" -> "+"
      [] op = "Subtract" -> "-"
      [] op = "Multiply" -> "*"
      [] op = "Divide" -> "/"
      [] op = "Power" -> "^"

(***************************************************************************)
(* Token and Expr constructors.                                            *)
(***************************************************************************)
TNumber(v) == <<"Number", v>>
TOperator(op) == <<"Operator", op>>
TLParen == <<"LParen">>
TRParen == <<"RParen">>
TScientific(base, exponent) == <<"Scientific", base, exponent>>

Literal(v) == <<"Literal", v>>
Scientific(base, exponent) == <<"Scientific", base, exponent>>
UnaryMinus(e) == <<"UnaryMinus", e>>
BinOp(op, lhs, rhs) == <<"BinOp", op, lhs, rhs>>

Ok(x) == <<"Ok", x>>
Err(e) == <<"Err", e>>
IsOk(r) == r[1] = "Ok"
IsErr(r) == r[1] = "Err"

InvalidExpression(msg) == <<"InvalidExpression", msg>>
InvalidNumber(text) == <<"InvalidNumber", text>>
UnexpectedToken(tok) == <<"UnexpectedToken", tok>>
DivisionByZero == <<"DivisionByZero">>
ErrKind(r) == r[2][1]

(***************************************************************************)
(* str::parse of the texts the tokenizer hands it.                         *)
(***************************************************************************)
RECURSIVE DigitsValue(_)
DigitsValue(text) ==
    IF text = <<>> THEN 0
    ELSE 10 * DigitsValue(SubSeq(text, 1, Len(text) - 1)) + DigitVal(text[Len(text)])

Without(text, ch) == SelectSeq(text, LAMBDA c : c # ch)

\* position of the first ch in text, Len(text) + 1 when there is none
IndexOf(text, ch) ==
    LET at == {k \in 1..Len(text) : text[k] = ch}
    IN IF at = {} THEN Len(text) + 1 ELSE CHOOSE k \in at : \A j \in at : k <= j

\* text without its leading zeros
StripZeros(text) ==
    LET at == {k \in 1..Len(text) : text[k] # "0"}
    IN IF at = {} THEN <<>>
       ELSE SubSeq(text, CHOOSE k \in at : \A j \in at : k <= j, Len(text))

\* text.parse::<f64>() on a text of digits and '.': a decimal with at least one
\* digit and at most one point ("5." and ".5" are numbers, "." and "" are not).
\* A decimal of 10^309 or more is beyond f64::MAX and reads as infinity.
ParseF64(text) ==
    LET digits == Without(text, ".")
        dot == IndexOf(text, ".")
    IN IF \/ \E k \in 1..Len(text) : text[k] \notin Digits \cup {"."}
          \/ Len(text) - Len(digits) > 1
          \/ digits = <<>>
       THEN Err("ParseFloatError")
       ELSE IF Len(StripZeros(SubSeq(text, 1, dot - 1))) > 309 THEN Ok(Infinity)
       ELSE Ok(Rat(DigitsValue(digits),
                   IF dot > Len(text) THEN 1 ELSE Pow10(Len(text) - dot)))

\* text.parse::<i32>(): an optional sign and at least one digit, digits only
ParseI32(text) ==
    LET signed == text # <<>> /\ Head(text) \in {"+", "-"}
        digits == IF signed THEN Tail(text) ELSE text
    IN IF digits = <<>> \/ \E k \in 1..Len(digits) : digits[k] \notin Digits
       THEN Err("ParseIntError")
       ELSE Ok(IF signed /\ Head(text) = "-" THEN -DigitsValue(digits)
               ELSE DigitsValue(digits))

RECURSIVE Split(_, _)
\* text.split(ch).collect(): the parts between the occurrences of ch
Split(text, ch) ==
    LET k == IndexOf(text, ch)
    IN IF k > Len(text) THEN <<text>>
       ELSE <<SubSeq(text, 1, k - 1)>> \o Split(SubSeq(text, k + 1, Len(text)), ch)

(***************************************************************************)
(* Tokenizer (token/tokenizer.rs).  The peekable character iterator is the *)
(* text s and the index i of the character a peek returns.                 *)
(***************************************************************************)
None == <<"None">>

RECURSIVE skip_whitespace(_, _)
skip_whitespace(s, i) ==
    IF i <= Len(s) /\ IsWhitespace(s[i]) THEN skip_whitespace(s, i + 1) ELSE i

parse_scientific_notation(number) ==
    LET parts == Split(number, "e")
    IN IF Len(parts) # 2 THEN Err(InvalidNumber(number))
       ELSE LET base == ParseF64(parts[1])
                exponent == ParseI32(parts[2])
            IN IF IsErr(base) THEN Err(InvalidNumber(number))
               ELSE IF IsErr(exponent) THEN Err(InvalidNumber(number))
               ELSE Ok(TScientific(base[2], exponent[2]))

\* the index after the run of digits that starts at s[i]
DigitsEnd(s, i) ==
    LET stops == {k \in i..Len(s) : s[k] \notin Digits}
    IN IF stops = {} THEN Len(s) + 1 ELSE CHOOSE k \in stops : \A j \in stops : k <= j

RECURSIVE scan_number(_, _, _, _, _)

\* mutant: no sign taken after the e
scan_number_unsigned(s, i, number, is_scientific, has_decimal) ==
    LET done == [r |-> Ok(None), number |-> number, sci |-> is_scientific, pos |-> i]
        fail(e) == [r |-> Err(e), number |-> number, sci |-> is_scientific, pos |-> i]
    IN IF i > Len(s) THEN done
       ELSE LET ch == s[i]
            IN IF ch \in Digits
               THEN scan_number(s, DigitsEnd(s, i),
                                number \o SubSeq(s, i, DigitsEnd(s, i) - 1),
                                is_scientific, has_decimal)
               ELSE IF ch = "."
               THEN IF has_decimal
                    THEN fail(InvalidExpression("Multiple decimal points in number"))
                    ELSE scan_number(s, i + 1, Append(number, ch), is_scientific, TRUE)
               ELSE IF ch \in {"e", "E"}
               THEN IF is_scientific
                    THEN fail(InvalidExpression("Multiple scientific notation in number"))
                    ELSE scan_number(s, i + 1, Append(number, ch), TRUE, has_decimal)
               ELSE IF IsWhitespace(ch) \/ ch \in SymbolChars THEN done
               ELSE fail(InvalidNumber(number))

\* mutant: has_decimal never set, a second point is accumulated
scan_number_any_points(s, i, number, is_scientific, has_decimal) ==
    LET done == [r |-> Ok(None), number |-> number, sci |-> is_scientific, pos |-> i]
        fail(e) == [r |-> Err(e), number |-> number, sci |-> is_scientific, pos |-> i]
    IN IF i > Len(s) THEN done
       ELSE LET ch == s[i]
            IN IF ch \in Digits
               THEN scan_number(s, DigitsEnd(s, i),
                                number \o SubSeq(s, i, DigitsEnd(s, i) - 1),
                                is_scientific, has_decimal)
               ELSE IF ch = "."
               THEN scan_number(s, i + 1, Append(number, ch), is_scientific, FALSE)
               ELSE IF ch \in {"e", "E"}
               THEN IF is_scientific
                    THEN fail(InvalidExpression("Multiple scientific notation in number"))
                    ELSE IF i + 1 <= Len(s) /\ s[i + 1] \in {"+", "-"}
                    THEN scan_number(s, i + 2, number \o <<ch, s[i + 1]>>, TRUE, has_decimal)
                    ELSE scan_number(s, i + 1, Append(number, ch), TRUE, has_decimal)
               ELSE IF IsWhitespace(ch) \/ ch \in SymbolChars THEN done
               ELSE fail(InvalidNumber(number))

\* the while loop of tokenize_number: r is Ok(None) when it leaves the loop.
\* The iterations over a run of digits are taken in one step.
scan_number(s, i, number, is_scientific, has_decimal) ==
    LET done == [r |-> Ok(None), number |-> number, sci |-> is_scientific, pos |-> i]
        fail(e) == [r |-> Err(e), number |-> number, sci |-> is_scientific, pos |-> i]
    IN IF i > Len(s) THEN done
       ELSE LET ch == s[i]
            IN IF ch \in Digits
               THEN scan_number(s, DigitsEnd(s, i),
                                number \o SubSeq(s, i, DigitsEnd(s, i) - 1),
                                is_scientific, has_decimal)
               ELSE IF ch = "."
               THEN IF has_decimal
                    THEN fail(InvalidExpression("Multiple decimal points in number"))
                    ELSE scan_number(s, i + 1, Append(number, ch), is_scientific, TRUE)
               ELSE IF ch \in {"e", "E"}
               THEN IF is_scientific
                    THEN fail(InvalidExpression("Multiple scientific notation in number"))
                    ELSE IF i + 1 <= Len(s) /\ s[i + 1] \in {"+", "-"}
                    THEN scan_number(s, i + 2, number \o <<ch, s[i + 1]>>, TRUE, has_decimal)
                    ELSE scan_number(s, i + 1, Append(number, ch), TRUE, has_decimal)
               ELSE IF IsWhitespace(ch) \/ ch \in SymbolChars THEN done
               ELSE fail(InvalidNumber(number))

tokenize_number(s, i) ==
    LET sc == scan_number(s, i, <<>>, FALSE, FALSE)
    IN IF IsErr(sc.r) THEN [r |-> sc.r, pos |-> sc.pos]
       ELSE IF sc.number = <<>>
       THEN [r |-> Err(InvalidExpression("Empty number")), pos |-> sc.pos]
       ELSE IF sc.sci
       THEN [r |-> parse_scientific_notation(sc.number), pos |-> sc.pos]
       ELSE LET v == ParseF64(sc.number)
            IN [r |-> IF IsErr(v) THEN Err(InvalidNumber(sc.number)) ELSE Ok(TNumber(v[2])),
                pos |-> sc.pos]

\* mutant: number scanning entered on e and E too
next_token_scans_e(s, from) ==
    LET i == skip_whitespace(s, from)
    IN IF i > Len(s) THEN [r |-> Ok(None), pos |-> i]
       ELSE LET ch == s[i]
            IN IF ch \in Digits \cup {".", "e", "E"} THEN tokenize_number(s, i)
               ELSE IF ch = "+" THEN [r |-> Ok(TOperator("Add")), pos |-> i + 1]
               ELSE IF ch = "-" THEN [r |-> Ok(TOperator("Subtract")), pos |-> i + 1]
               ELSE IF ch = "*" THEN [r |-> Ok(TOperator("Multiply")), pos |-> i + 1]
               ELSE IF ch = "/" THEN [r |-> Ok(TOperator("Divide")), pos |-> i + 1]
               ELSE IF ch = "^" THEN [r |-> Ok(TOperator("Power")), pos |-> i + 1]
               ELSE IF ch = "(" THEN [r |-> Ok(TLParen), pos |-> i + 1]
               ELSE IF ch = ")" THEN [r |-> Ok(TRParen), pos |-> i + 1]
               ELSE [r |-> Err(InvalidExpression(<<"Unexpected character: ", ch>>)),
                     pos |-> i]

next_token(s, from) ==
    LET i == skip_whitespace(s, from)
    IN IF i > Len(s) THEN [r |-> Ok(None), pos |-> i]
       ELSE LET ch == s[i]
            IN IF ch \in Digits \cup {"."} THEN tokenize_number(s, i)
               ELSE IF ch = "+" THEN [r |-> Ok(TOperator("Add")), pos |-> i + 1]
               ELSE IF ch = "-" THEN [r |-> Ok(TOperator("Subtract")), pos |-> i + 1]
               ELSE IF ch = "*" THEN [r |-> Ok(TOperator("Multiply")), pos |-> i + 1]
               ELSE IF ch = "/" THEN [r |-> Ok(TOperator("Divide")), pos |-> i + 1]
               ELSE IF ch = "^" THEN [r |-> Ok(TOperator("Power")), pos |-> i + 1]
               ELSE IF ch = "(" THEN [r |-> Ok(TLParen), pos |-> i + 1]
               ELSE IF ch = ")" THEN [r |-> Ok(TRParen), pos |-> i + 1]
               ELSE [r |-> Err(InvalidExpression(<<"Unexpected character: ", ch>>)),
                     pos |-> i]

RECURSIVE tokenize_all(_, _, _)
tokenize_all(s, i, acc) ==
    LET t == next_token(s, i)
    IN IF IsErr(t.r) THEN t.r
       ELSE IF t.r[2] = None THEN Ok(acc)
       ELSE tokenize_all(s, t.pos, Append(acc, t.r[2]))

tokenize(s) == tokenize_all(s, 1, <<>>)

(***************************************************************************)
(* Parser (parser.rs).  current is the 0-based index of the next token;    *)
(* every parse function returns its result and the cursor it leaves.       *)
(***************************************************************************)
peek(ts, current) == IF current < Len(ts) THEN ts[current + 1] ELSE None

RECURSIVE parse_primary(_, _)
RECURSIVE parse_expression(_, _, _)
RECURSIVE parse_loop(_, _, _, _)

\* mutant: unary minus applied to a whole expression
parse_primary_negates_expression(ts, current) ==
    LET token == peek(ts, current)
        after == current + 1
    IN IF token[1] = "None"
       THEN [r |-> Err(InvalidExpression("Unexpected end of input")), current |-> after]
       ELSE IF token[1] = "Number"
       THEN [r |-> Ok(Literal(token[2])), current |-> after]
       ELSE IF token[1] = "Scientific"
       THEN [r |-> Ok(Scientific(token[2], token[3])), current |-> after]
       ELSE IF token[1] = "Operator" /\ token[2] = "Subtract"
       THEN LET e == parse_expression(ts, after, 0)
            IN IF IsErr(e.r) THEN e
               ELSE [r |-> Ok(UnaryMinus(e.r[2])), current |-> e.current]
       ELSE IF token[1] = "LParen"
       THEN LET e == parse_expression(ts, after, 0)
            IN IF IsErr(e.r) THEN e
               ELSE IF peek(ts, e.current)[1] = "RParen"
               THEN [r |-> e.r, current |-> e.current + 1]
               ELSE [r |-> Err(InvalidExpression("Expected ')'")),
                     current |-> e.current + 1]
       ELSE [r |-> Err(UnexpectedToken(token)), current |-> after]

\* mutant: the closing parenthesis peeked at, not consumed
parse_primary_keeps_rparen(ts, current) ==
    LET token == peek(ts, current)
        after == current + 1
    IN IF token[1] = "None"
       THEN [r |-> Err(InvalidExpression("Unexpected end of input")), current |-> after]
       ELSE IF token[1] = "Number"
       THEN [r |-> Ok(Literal(token[2])), current |-> after]
       ELSE IF token[1] = "Scientific"
       THEN [r |-> Ok(Scientific(token[2], token[3])), current |-> after]
       ELSE IF token[1] = "Operator" /\ token[2] = "Subtract"
       THEN LET e == parse_primary(ts, after)
            IN IF IsErr(e.r) THEN e
               ELSE [r |-> Ok(UnaryMinus(e.r[2])), current |-> e.current]
       ELSE IF token[1] = "LParen"
       THEN LET e == parse_expression(ts, after, 0)
            IN IF IsErr(e.r) THEN e
               ELSE IF peek(ts, e.current)[1] = "RParen"
               THEN [r |-> e.r, current |-> e.current]
               ELSE [r |-> Err(InvalidExpression("Expected ')'")),
                     current |-> e.current + 1]
       ELSE [r |-> Err(UnexpectedToken(token)), current |-> after]

\* mutant: a missing closing parenthesis accepted
parse_primary_lenient(ts, current) ==
    LET token == peek(ts, current)
        after == current + 1
    IN IF token[1] = "None"
       THEN [r |-> Err(InvalidExpression("Unexpected end of input")), current |-> after]
       ELSE IF token[1] = "Number"
       THEN [r |-> Ok(Literal(token[2])), current |-> after]
       ELSE IF token[1] = "Scientific"
       THEN [r |-> Ok(Scientific(token[2], token[3])), current |-> after]
       ELSE IF token[1] = "Operator" /\ token[2] = "Subtract"
       THEN LET e == parse_primary(ts, after)
            IN IF IsErr(e.r) THEN e
               ELSE [r |-> Ok(UnaryMinus(e.r[2])), current |-> e.current]
       ELSE IF token[1] = "LParen"
       THEN LET e == parse_expression(ts, after, 0)
            IN IF IsErr(e.r) THEN e
               ELSE IF peek(ts, e.current)[1] = "RParen"
               THEN [r |-> e.r, current |-> e.current + 1]
               ELSE [r |-> e.r, current |-> e.current + 1]
       ELSE [r |-> Err(UnexpectedToken(token)), current |-> after]

parse_primary(ts, current) ==
    LET token == peek(ts, current)
        after == current + 1
    IN IF token[1] = "None"
       THEN [r |-> Err(InvalidExpression("Unexpected end of input")), current |-> after]
       ELSE IF token[1] = "Number"
       THEN [r |-> Ok(Literal(token[2])), current |-> after]
       ELSE IF token[1] = "Scientific"
       THEN [r |-> Ok(Scientific(token[2], token[3])), current |-> after]
       ELSE IF token[1] = "Operator" /\ token[2] = "Subtract"
       THEN LET e == parse_primary(ts, after)
            IN IF IsErr(e.r) THEN e
               ELSE [r |-> Ok(UnaryMinus(e.r[2])), current |-> e.current]
       ELSE IF token[1] = "LParen"
       THEN LET e == parse_expression(ts, after, 0)
            IN IF IsErr(e.r) THEN e
               ELSE IF peek(ts, e.current)[1] = "RParen"
               THEN [r |-> e.r, current |-> e.current + 1]
               ELSE [r |-> Err(InvalidExpression("Expected ')'")),
                     current |-> e.current + 1]
       ELSE [r |-> Err(UnexpectedToken(token)), current |-> after]

\* mutant: the right-hand side parsed at the operator's own precedence
parse_loop_right(ts, current, min_precedence, lhs) ==
    LET token == peek(ts, current)
    IN IF token[1] = "None" THEN [r |-> Ok(lhs), current |-> current]
       ELSE IF token[1] = "Operator"
       THEN IF precedence(token[2]) < min_precedence
            THEN [r |-> Ok(lhs), current |-> current]
            ELSE LET rhs == parse_expression(ts, current + 1, precedence(token[2]))
                 IN IF IsErr(rhs.r) THEN rhs
                    ELSE parse_loop(ts, rhs.current, min_precedence,
                                    BinOp(token[2], lhs, rhs.r[2]))
       ELSE IF token[1] = "RParen" THEN [r |-> Ok(lhs), current |-> current]
       ELSE [r |-> Err(UnexpectedToken(token)), current |-> current]

\* the while loop of parse_expression, lhs being the expression built so far
parse_loop(ts, current, min_precedence, lhs) ==
    LET token == peek(ts, current)
    IN IF token[1] = "None" THEN [r |-> Ok(lhs), current |-> current]
       ELSE IF token[1] = "Operator"
       THEN IF precedence(token[2]) < min_precedence
            THEN [r |-> Ok(lhs), current |-> current]
            ELSE LET rhs == parse_expression(ts, current + 1, precedence(token[2]) + 1)
                 IN IF IsErr(rhs.r) THEN rhs
                    ELSE parse_loop(ts, rhs.current, min_precedence,
                                    BinOp(token[2], lhs, rhs.r[2]))
       ELSE IF token[1] = "RParen" THEN [r |-> Ok(lhs), current |-> current]
       ELSE [r |-> Err(UnexpectedToken(token)), current |-> current]

parse_expression(ts, current, min_precedence) ==
    LET lhs == parse_primary(ts, current)
    IN IF IsErr(lhs.r) THEN lhs
       ELSE parse_loop(ts, lhs.current, min_precedence, lhs.r[2])

\* Parser::new(tokens).parse()
parse(ts) == parse_expression(ts, 0, 0)

(***************************************************************************)
(* f64 arithmetic.  A float is tracked when it is a dyadic rational of     *)
(* magnitude at most MaxMag; an operation on tracked floats whose exact    *)
(* result is tracked returns it (IEEE-754 operations are exact there), and *)
(* every other result is Inexact.                                          *)
(***************************************************************************)
Tracked(x) == IsDyadic(x) /\ Abs(x[1]) <= MaxMag /\ x[2] <= MaxMag

Track(x) == IF Tracked(x) THEN x ELSE Inexact

FNeg(x) == IF IsExactNum(x) THEN <<-x[1], x[2]>> ELSE Inexact

FAdd(a, b) ==
    IF Tracked(a) /\ Tracked(b)
    THEN Track(Rat(a[1] * b[2] + b[1] * a[2], a[2] * b[2])) ELSE Inexact

FSub(a, b) ==
    IF Tracked(a) /\ Tracked(b)
    THEN Track(Rat(a[1] * b[2] - b[1] * a[2], a[2] * b[2])) ELSE Inexact

FMul(a, b) ==
    IF Tracked(a) /\ Tracked(b) THEN Track(Rat(a[1] * b[1], a[2] * b[2])) ELSE Inexact

\* a / b for b # 0
FDiv(a, b) ==
    IF Tracked(a) /\ Tracked(b) /\ b[1] # 0
    THEN Track(Rat(a[1] * b[2], a[2] * b[1])) ELSE Inexact

RECURSIVE PowAcc(_, _, _)
PowAcc(x, k, acc) ==
    IF k = 0 \/ acc = Inexact THEN acc ELSE PowAcc(x, k - 1, FMul(acc, x))

\* 10f64.powi(k)
Powi10(k) == IF k >= 0 THEN PowAcc(<<10, 1>>, k, <<1, 1>>) ELSE Inexact

\* left.powf(right): tracked for an integer exponent
FPow(a, b) ==
    IF ~(Tracked(a) /\ Tracked(b)) \/ b[2] # 1 THEN Inexact
    ELSE IF b[1] >= 0 THEN PowAcc(a, b[1], <<1, 1>>)
    ELSE IF a[1] = 0 THEN Inexact
    ELSE PowAcc(Track(Rat(a[2], a[1])), -b[1], <<1, 1>>)

(***************************************************************************)
(* Evaluator (evaluator.rs).  Unknown is the result of a tree whose        *)
(* division tests an untracked divisor against 0.0: the model does not     *)
(* tell whether the code returns a number or DivisionByZero there.         *)
(***************************************************************************)
Unknown == <<"Unknown">>

RECURSIVE evaluate(_)

\* mutant: the dividend, not the divisor, tested against zero
evaluate_tests_left(expr) ==
    IF expr[1] = "Literal" THEN Ok(expr[2])
    ELSE IF expr[1] = "Scientific" THEN Ok(FMul(Track(expr[2]), Powi10(expr[3])))
    ELSE IF expr[1] = "UnaryMinus"
    THEN LET v == evaluate(expr[2])
         IN IF IsOk(v) THEN Ok(FNeg(v[2])) ELSE v
    ELSE LET op == expr[2]
             left == evaluate(expr[3])
         IN IF ~IsOk(left) THEN left
            ELSE LET right == evaluate(expr[4])
                 IN IF ~IsOk(right) THEN right
                    ELSE IF op = "Add" THEN Ok(FAdd(left[2], right[2]))
                    ELSE IF op = "Subtract" THEN Ok(FSub(left[2], right[2]))
                    ELSE IF op = "Multiply" THEN Ok(FMul(left[2], right[2]))
                    ELSE IF op = "Divide"
                    THEN IF ~IsExactNum(right[2]) THEN Unknown
                         ELSE IF IsZero(left[2]) THEN Err(DivisionByZero)
                         ELSE Ok(FDiv(left[2], right[2]))
                    ELSE Ok(FPow(left[2], right[2]))

\* mutant: the error of a unary minus operand turned into a number
evaluate_negates_error(expr) ==
    IF expr[1] = "Literal" THEN Ok(expr[2])
    ELSE IF expr[1] = "Scientific" THEN Ok(FMul(Track(expr[2]), Powi10(expr[3])))
    ELSE IF expr[1] = "UnaryMinus"
    THEN LET v == evaluate(expr[2])
         IN IF IsOk(v) THEN Ok(FNeg(v[2])) ELSE Ok(Inexact)
    ELSE LET op == expr[2]
             left == evaluate(expr[3])
         IN IF ~IsOk(left) THEN left
            ELSE LET right == evaluate(expr[4])
                 IN IF ~IsOk(right) THEN right
                    ELSE IF op = "Add" THEN Ok(FAdd(left[2], right[2]))
                    ELSE IF op = "Subtract" THEN Ok(FSub(left[2], right[2]))
                    ELSE IF op = "Multiply" THEN Ok(FMul(left[2], right[2]))
                    ELSE IF op = "Divide"
                    THEN IF ~IsExactNum(right[2]) THEN Unknown
                         ELSE IF IsZero(right[2]) THEN Err(DivisionByZero)
                         ELSE Ok(FDiv(left[2], right[2]))
                    ELSE Ok(FPow(left[2], right[2]))

evaluate(expr) ==
    IF expr[1] = "Literal" THEN Ok(expr[2])
    ELSE IF expr[1] = "Scientific" THEN Ok(FMul(Track(expr[2]), Powi10(expr[3])))
    ELSE IF expr[1] = "UnaryMinus"
    THEN LET v == evaluate(expr[2])
         IN IF IsOk(v) THEN Ok(FNeg(v[2])) ELSE v
    ELSE LET op == expr[2]
             left == evaluate(expr[3])
         IN IF ~IsOk(left) THEN left
            ELSE LET right == evaluate(expr[4])
                 IN IF ~IsOk(right) THEN right
                    ELSE IF op = "Add" THEN Ok(FAdd(left[2], right[2]))
                    ELSE IF op = "Subtract" THEN Ok(FSub(left[2], right[2]))
                    ELSE IF op = "Multiply" THEN Ok(FMul(left[2], right[2]))
                    ELSE IF op = "Divide"
                    THEN IF ~IsExactNum(right[2]) THEN Unknown
                         ELSE IF IsZero(right[2]) THEN Err(DivisionByZero)
                         ELSE Ok(FDiv(left[2], right[2]))
                    ELSE Ok(FPow(left[2], right[2]))

(***************************************************************************)
(* Display (token/mod.rs).                                                 *)
(***************************************************************************)
RECURSIVE NatText(_)
NatText(n) ==
    IF n < 10 THEN <<DigitChar(n)>> ELSE NatText(n \div 10) \o <<DigitChar(n % 10)>>

IntText(n) == IF n < 0 THEN <<"-">> \o NatText(-n) ELSE NatText(n)

RECURSIVE FracText(_, _)
\* the decimal digits of rem/d, 0 <= rem < d, d dividing a power of ten
FracText(rem, d) ==
    IF rem = 0 THEN <<>>
    ELSE <<DigitChar((rem * 10) \div d)>> \o FracText((rem * 10) % d, d)

\* write!(f, "{}", value) of an f64: the shortest decimal that reads back as it
FormatF64(x) ==
    IF x = Infinity THEN <<"i", "n", "f">>
    ELSE LET n == Abs(x[1])
             whole == (IF x[1] < 0 THEN <<"-">> ELSE <<>>) \o NatText(n \div x[2])
         IN IF n % x[2] = 0 THEN whole
            ELSE whole \o <<".">> \o FracText(n % x[2], x[2])

RECURSIVE fmt(_)

\* mutant: the right child wrapped only at strictly lower precedence
fmt_right_strict(expr) ==
    IF expr[1] = "Literal" THEN FormatF64(expr[2])
    ELSE IF expr[1] = "Scientific"
    THEN FormatF64(expr[2]) \o <<"e">> \o IntText(expr[3])
    ELSE IF expr[1] = "UnaryMinus" THEN <<"-", "(">> \o fmt(expr[2]) \o <<")">>
    ELSE LET op == expr[2]
             lhs == expr[3]
             rhs == expr[4]
             need_parens_left ==
                 lhs[1] = "BinOp" /\ precedence(lhs[2]) < precedence(op)
             need_parens_right ==
                 rhs[1] = "BinOp" /\ precedence(rhs[2]) < precedence(op)
             wrap(b, e) == IF b THEN <<"(">> \o fmt(e) \o <<")">> ELSE fmt(e)
         IN wrap(need_parens_left, lhs) \o <<" ", symbol(op), " ">>
            \o wrap(need_parens_right, rhs)

\* mutant: the left child wrapped at lower or equal precedence
fmt_left_weak(expr) ==
    IF expr[1] = "Literal" THEN FormatF64(expr[2])
    ELSE IF expr[1] = "Scientific"
    THEN FormatF64(expr[2]) \o <<"e">> \o IntText(expr[3])
    ELSE IF expr[1] = "UnaryMinus" THEN <<"-", "(">> \o fmt(expr[2]) \o <<")">>
    ELSE LET op == expr[2]
             lhs == expr[3]
             rhs == expr[4]
             need_parens_left ==
                 lhs[1] = "BinOp" /\ precedence(lhs[2]) <= precedence(op)
             need_parens_right ==
                 rhs[1] = "BinOp" /\ precedence(rhs[2]) <= precedence(op)
             wrap(b, e) == IF b THEN <<"(">> \o fmt(e) \o <<")">> ELSE fmt(e)
         IN wrap(need_parens_left, lhs) \o <<" ", symbol(op), " ">>
            \o wrap(need_parens_right, rhs)

fmt(expr) ==
    IF expr[1] = "Literal" THEN FormatF64(expr[2])
    ELSE IF expr[1] = "Scientific"
    THEN FormatF64(expr[2]) \o <<"e">> \o IntText(expr[3])
    ELSE IF expr[1] = "UnaryMinus" THEN <<"-", "(">> \o fmt(expr[2]) \o <<")">>
    ELSE LET op == expr[2]
             lhs == expr[3]
             rhs == expr[4]
             need_parens_left ==
                 lhs[1] = "BinOp" /\ precedence(lhs[2]) < precedence(op)
             need_parens_right ==
                 rhs[1] = "BinOp" /\ precedence(rhs[2]) <= precedence(op)
             wrap(b, e) == IF b THEN <<"(">> \o fmt(e) \o <<")">> ELSE fmt(e)
         IN wrap(need_parens_left, lhs) \o <<" ", symbol(op), " ">>
            \o wrap(need_parens_right, rhs)

(***************************************************************************)
(* Inputs.  A lexeme is the text of one token; a token-level input is a    *)
(* sequence of lexemes joined by single spaces.                            *)
(***************************************************************************)
OperatorLexemes == {<<"+">>, <<"-">>, <<"*">>, <<"/">>, <<"^">>}

\* 0, 2, 3 and the non-canonical spellings .5 and 2e1
NumberLexemes == {<<"0">>, <<"2">>, <<"3">>, <<".", "5">>, <<"2", "e", "1">>}

Lexemes == NumberLexemes \cup OperatorLexemes \cup {<<"(">>, <<")">>}

\* the operands of the expression shapes below
Operands == {<<"0">>, <<"2">>, <<"3">>}

SeqsUpTo(S, n) == UNION {[1..k -> S] : k \in 0..n}

Prefixes(S) == UNION {{SubSeq(l, 1, k) : k \in 0..Len(l)} : l \in S}

\* a op1 b op2 c
FlatShapes ==
    {<<a, o1, b, o2, c>> : a \in Operands, b \in Operands, c \in Operands,
                           o1 \in OperatorLexemes, o2 \in OperatorLexemes}

\* ( a op1 b ) op2 c  and  a op1 ( b op2 c )
ParenShapes ==
    {<<<<"(">>, ops[1], ops[4], ops[2], <<")">>, ops[5], ops[3]>> :
        ops \in Operands \X Operands \X Operands \X OperatorLexemes \X OperatorLexemes}
    \cup
    {<<ops[1], ops[4], <<"(">>, ops[2], ops[5], ops[3], <<")">>>> :
        ops \in Operands \X Operands \X Operands \X OperatorLexemes \X OperatorLexemes}

\* the primaries p of the shape - p op b
PrimaryShapes ==
    {<<a>> : a \in Operands} \cup {<<<<"-">>, a>> : a \in Operands}
    \cup {<<<<"(">>, a, o, b, <<")">>>> :
            a \in Operands, o \in OperatorLexemes, b \in Operands}

\* - p op b
UnaryShapes ==
    {<<<<"-">>>> \o p \o <<o, b>> :
        p \in PrimaryShapes, o \in OperatorLexemes, b \in Operands}

\* the expressions the tests and the documentation evaluate
Examples ==
    { <<<<"1">>, <<"+">>, <<"2">>, <<"*">>, <<"3">>>>,
      <<<<"2">>, <<"*">>, <<"3">>, <<"+">>, <<"4">>>>,
      <<<<"1">>, <<"^">>, <<"2">>, <<"+">>, <<"3">>>>,
      <<<<"2">>, <<"^">>, <<"3">>, <<"^">>, <<"2">>>>,
      <<<<"-">>, <<"2">>, <<"^">>, <<"3">>>>,
      <<<<"-">>, <<"(">>, <<"2">>, <<"+">>, <<"3">>, <<")">>>>,
      <<<<"(">>, <<"1">>, <<"+">>, <<"2">>, <<")">>, <<"*">>, <<"3">>>>,
      <<<<"1">>, <<"/">>, <<"0">>>>,
      <<<<"1">>, <<"/">>, <<"(">>, <<"2">>, <<"-">>, <<"2">>, <<")">>>>,
      <<<<"1">>, <<"+">>, <<"2">>, <<"*">>, <<"(">>, <<"3">>, <<"-">>, <<"4">>, <<")">>,
        <<"+">>, <<"5">>, <<"*">>>>,
      <<<<"2", "e", "1", "0">>, <<"+">>, <<"3", "e", "-", "2">>, <<"+">>, <<"2">>>>,
      <<<<"1", ".", "5", "e", "3">>, <<"+">>, <<"2", "e", "-", "2">>>>,
      <<<<"1", ".", "5", "E", "3">>>>,
      <<<<"2">>, <<"+">>, <<"3">>, <<"*">>, <<"4">>>>,
      <<<<"(", "2">>, <<"+">>, <<"3", ")">>, <<"*">>, <<"4">>>>,
      <<<<"1", ".", "2", "3", "e", "-", "4">>, <<"+">>,
        <<"5", ".", "6", "7", "e", "+", "8">>>> }

\* a literal of 310 digits, beyond f64::MAX
Overflowing == {<<[k \in 1..310 |-> "9"]>>}

\* texts the tokenizer rejects: a second decimal point, a leading e or E
Malformed ==
    { <<<<"1", ".", "2", ".", "3">>>>,
      <<<<"2">>, <<"+">>, <<"1", ".", "2", ".", "3">>>>,
      <<<<"e", "5">>>>,
      <<<<"2">>, <<"*">>, <<"E", "5">>>> }

LexemeInputs ==
    SeqsUpTo(Lexemes, MaxToks)
    \cup Prefixes(FlatShapes \cup ParenShapes \cup UnaryShapes \cup Examples)
    \cup Overflowing
    \cup Malformed

RECURSIVE Join(_)
Join(ls) ==
    IF ls = <<>> THEN <<>>
    ELSE IF Len(ls) = 1 THEN ls[1]
    ELSE ls[1] \o <<" ">> \o Join(Tail(ls))

\* the characters of the character-level inputs
Chars == {"1", "2", ".", "e", "E", "+", "-", " ", "x"}

CharInputs == SeqsUpTo(Chars, MaxChars)

Inputs == {Join(ls) : ls \in LexemeInputs} \cup CharInputs

(***************************************************************************)
(* The pipeline of process_expression (main.rs): tokenize, parse, print    *)
(* the parsed expression, evaluate.  Reprocess runs the pipeline again on  *)
(* the printed expression.                                                 *)
(***************************************************************************)
NotRun == <<"NotRun">>

NoParse == [r |-> NotRun, current |-> 0]

Init ==
    /\ input \in Inputs
    /\ phase = "start"
    /\ tokens = NotRun
    /\ ast = NoParse
    /\ value = NotRun
    /\ rendered = NotRun
    /\ reparsed = NotRun
    /\ calls = <<>>

Tokenize ==
    /\ phase = "start"
    /\ tokens' = tokenize(input)
    /\ phase' = IF IsOk(tokens') THEN "tokenized" ELSE "failed"
    /\ UNCHANGED <<input, ast, value, rendered, reparsed, calls>>

Parse ==
    /\ phase = "tokenized"
    /\ ast' = parse(tokens[2])
    /\ phase' = IF IsOk(ast'.r) THEN "parsed" ELSE "failed"
    /\ UNCHANGED <<input, tokens, value, rendered, reparsed, calls>>

Render ==
    /\ phase = "parsed"
    /\ rendered' = fmt(ast.r[2])
    /\ phase' = "rendered"
    /\ UNCHANGED <<input, tokens, ast, value, reparsed, calls>>

Evaluate ==
    /\ phase = "rendered"
    /\ value' = evaluate(ast.r[2])
    /\ phase' = "evaluated"
    /\ UNCHANGED <<input, tokens, ast, rendered, reparsed, calls>>

\* tokenize, parse and evaluate the text s
Process(s) ==
    LET t == tokenize(s)
        e == IF IsOk(t) THEN parse(t[2]) ELSE NoParse
        v == IF IsOk(e.r) THEN evaluate(e.r[2]) ELSE NotRun
    IN [tokens |-> t, ast |-> e, value |-> v]

Reprocess ==
    /\ phase = "evaluated"
    /\ reparsed' = Process(rendered)
    /\ phase' = "done"
    /\ UNCHANGED <<input, tokens, ast, value, rendered, calls>>

Next == Tokenize \/ Parse \/ Render \/ Evaluate \/ Reprocess

Spec == Init /\ [][Next]_vars

(***************************************************************************)
(* The parser run step by step (parser.rs).  calls is the stack of the     *)
(* pending calls of parse_primary and parse_expression, the running call   *)
(* last; ast.current is Parser::current.  A call's record holds where it   *)
(* is (pc), its locals, the result ret of the call it made last, and the   *)
(* cursor at its entry.                                                    *)
(***************************************************************************)
\* mutant: the token returned, the cursor left where it was
next_keeps_cursor(ts, current) == [token |-> peek(ts, current), current |-> current]

\* Parser::next: the token at the cursor, and the cursor moved past it
next(ts, current) == [token |-> peek(ts, current), current |-> current + 1]

\* Parser::advance
advance(current) == current + 1

ExpressionCall(min_precedence, entry) ==
    [fn |-> "parse_expression", pc |-> "start", min_precedence |-> min_precedence,
     lhs |-> NotRun, op |-> NotRun, ret |-> NotRun, entry |-> entry]

PrimaryCall(entry) ==
    [fn |-> "parse_primary", pc |-> "start", min_precedence |-> 0,
     lhs |-> NotRun, op |-> NotRun, ret |-> NotRun, entry |-> entry]

Top == calls[Len(calls)]

Running(fn, pc) ==
    phase = "parsing" /\ calls # <<>> /\ Top.fn = fn /\ Top.pc = pc

\* the running call returns r with the cursor at current: to its caller, or,
\* from the call parse made, to the pipeline
Return(r, current) ==
    /\ calls' = IF Len(calls) = 1 THEN <<>>
                ELSE [SubSeq(calls, 1, Len(calls) - 1) EXCEPT ![Len(calls) - 1].ret = r]
    /\ ast' = [r |-> IF Len(calls) = 1 THEN r ELSE NotRun, current |-> current]
    /\ phase' = IF Len(calls) > 1 THEN phase ELSE IF IsOk(r) THEN "parsed" ELSE "failed"

\* the running call moves to pc and calls callee with the cursor at current
Call(pc, callee, current) ==
    /\ calls' = Append([calls EXCEPT ![Len(calls)].pc = pc], callee)
    /\ ast' = [ast EXCEPT !.current = current]
    /\ phase' = phase

\* Parser::new(tokens).parse()
ParseCall ==
    /\ phase = "tokenized"
    /\ phase' = "parsing"
    /\ calls' = <<ExpressionCall(0, 0)>>
    /\ ast' = [r |-> NotRun, current |-> 0]
    /\ UNCHANGED <<input, tokens, value, rendered, reparsed>>

\* parse_expression: let mut lhs = self.parse_primary()
ExpressionEnter ==
    /\ Running("parse_expression", "start")
    /\ Call("lhs", PrimaryCall(ast.current), ast.current)
    /\ UNCHANGED <<input, tokens, value, rendered, reparsed>>

\* parse_expression: the ? on the result of parse_primary
LhsReturn ==
    /\ Running("parse_expression", "lhs")
    /\ IF IsErr(Top.ret) THEN Return(Top.ret, ast.current)
       ELSE /\ calls' = [calls EXCEPT ![Len(calls)].lhs = Top.ret[2],
                                      ![Len(calls)].pc = "loop"]
            /\ UNCHANGED <<ast, phase>>
    /\ UNCHANGED <<input, tokens, value, rendered, reparsed>>

\* parse_expression: one iteration of the while loop, up to the recursive call
LoopStep ==
    /\ Running("parse_expression", "loop")
    /\ LET token == peek(tokens[2], ast.current)
       IN IF token[1] = "None" THEN Return(Ok(Top.lhs), ast.current)
          ELSE IF token[1] = "Operator"
          THEN IF precedence(token[2]) < Top.min_precedence
               THEN Return(Ok(Top.lhs), ast.current)
               ELSE /\ calls' = Append([calls EXCEPT ![Len(calls)].pc = "rhs",
                                                     ![Len(calls)].op = token[2]],
                                       ExpressionCall(precedence(token[2]) + 1,
                                                      advance(ast.current)))
                    /\ ast' = [ast EXCEPT !.current = advance(ast.current)]
                    /\ phase' = phase
          ELSE IF token[1] = "RParen" THEN Return(Ok(Top.lhs), ast.current)
          ELSE Return(Err(UnexpectedToken(token)), ast.current)
    /\ UNCHANGED <<input, tokens, value, rendered, reparsed>>

\* parse_expression: the ? on the right-hand side, and lhs = BinOp { .. }
RhsReturn ==
    /\ Running("parse_expression", "rhs")
    /\ IF IsErr(Top.ret) THEN Return(Top.ret, ast.current)
       ELSE /\ calls' = [calls EXCEPT ![Len(calls)].lhs = BinOp(Top.op, Top.lhs, Top.ret[2]),
                                      ![Len(calls)].pc = "loop"]
            /\ UNCHANGED <<ast, phase>>
    /\ UNCHANGED <<input, tokens, value, rendered, reparsed>>

\* parse_primary: self.next() and the match on the token
PrimaryNext ==
    /\ Running("parse_primary", "start")
    /\ LET n == next(tokens[2], ast.current)
           token == n.token
       IN IF token[1] = "None"
          THEN Return(Err(InvalidExpression("Unexpected end of input")), n.current)
          ELSE IF token[1] = "Number" THEN Return(Ok(Literal(token[2])), n.current)
          ELSE IF token[1] = "Scientific"
          THEN Return(Ok(Scientific(token[2], token[3])), n.current)
          ELSE IF token[1] = "Operator" /\ token[2] = "Subtract"
          THEN Call("unary", PrimaryCall(n.current), n.current)
          ELSE IF token[1] = "LParen"
          THEN Call("paren", ExpressionCall(0, n.current), n.current)
          ELSE Return(Err(UnexpectedToken(token)), n.current)
    /\ UNCHANGED <<input, tokens, value, rendered, reparsed>>

\* parse_primary: the operand of a unary minus has been parsed
UnaryReturn ==
    /\ Running("parse_primary", "unary")
    /\ IF IsErr(Top.ret) THEN Return(Top.ret, ast.current)
       ELSE Return(Ok(UnaryMinus(Top.ret[2])), ast.current)
    /\ UNCHANGED <<input, tokens, value, rendered, reparsed>>

\* parse_primary: the expression after a '(' has been parsed; match self.next()
ParenReturn ==
    /\ Running("parse_primary", "paren")
    /\ IF IsErr(Top.ret) THEN Return(Top.ret, ast.current)
       ELSE LET n == next(tokens[2], ast.current)
            IN IF n.token[1] = "RParen" THEN Return(Top.ret, n.current)
               ELSE Return(Err(InvalidExpression("Expected ')'")), n.current)
    /\ UNCHANGED <<input, tokens, value, rendered, reparsed>>

\* the token sequences given to the parser: those of the token-level inputs
ParserInit ==
    /\ input \in {Join(ls) : ls \in LexemeInputs}
    /\ tokens = tokenize(input)
    /\ IsOk(tokens)
    /\ phase = "tokenized"
    /\ ast = NoParse
    /\ value = NotRun
    /\ rendered = NotRun
    /\ reparsed = NotRun
    /\ calls = <<>>

ParserNext ==
    \/ ParseCall
    \/ ExpressionEnter
    \/ LhsReturn
    \/ LoopStep
    \/ RhsReturn
    \/ PrimaryNext
    \/ UnaryReturn
    \/ ParenReturn

\* the parser is sequential code that runs to its return: a step that can be
\* taken is taken
ParserSpec == ParserInit /\ [][ParserNext]_vars /\ WF_vars(ParserNext)

(***************************************************************************)
(* Vocabulary of the properties.                                           *)
(***************************************************************************)
TokenizeRan == tokens[1] # "NotRun"
ParseRan == ast.r[1] # "NotRun"
EvaluateRan == value[1] # "NotRun"
ReprocessRan == phase = "done"

\* the tokens the parser was given
Toks == tokens[2]

IsOperand(tok) == tok[1] \in {"Number", "Scientific"}
IsOperator(tok) == tok[1] = "Operator"

\* the expression an operand token stands for
Leaf(tok) ==
    IF tok[1] = "Number" THEN Literal(tok[2]) ELSE Scientific(tok[2], tok[3])

\* the precedence table of the specification
StatedPrecedence(op) ==
    CASE op \in {"Add", "Subtract"} -> 1
      [] op \in {"Multiply", "Divide"} -> 2
      [] op = "Power" -> 3

ParsedAs(e) == IsOk(ast.r) /\ ast.r[2] = e

Num(n) == <<n, 1>>

\* the tokens are a op1 b op2 c
IsFlat ==
    /\ ParseRan
    /\ Len(Toks) = 5
    /\ IsOperand(Toks[1]) /\ IsOperator(Toks[2]) /\ IsOperand(Toks[3])
    /\ IsOperator(Toks[4]) /\ IsOperand(Toks[5])

GroupedLeft(a, op1, b, op2, c) == BinOp(op2, BinOp(op1, Leaf(a), Leaf(b)), Leaf(c))
GroupedRight(a, op1, b, op2, c) == BinOp(op1, Leaf(a), BinOp(op2, Leaf(b), Leaf(c)))

EvaluatesTo(ls, v) == input = Join(ls) /\ EvaluateRan => value = Ok(v)

(***************************************************************************)
(* C1.  Precedence: the tokens a op1 b op2 c parse as a op1 (b op2 c) when *)
(* op2 has the higher stated precedence and as (a op1 b) op2 c when it has *)
(* the lower; "1 + 2 * 3" evaluates to 7, "2 * 3 + 4" to 10 and            *)
(* "1 ^ 2 + 3" to 4.                                                       *)
(***************************************************************************)
C1_Precedence ==
    /\ IsFlat =>
         LET op1 == Toks[2][2]
             op2 == Toks[4][2]
         IN /\ StatedPrecedence(op2) > StatedPrecedence(op1) =>
                 ParsedAs(GroupedRight(Toks[1], op1, Toks[3], op2, Toks[5]))
            /\ StatedPrecedence(op2) < StatedPrecedence(op1) =>
                 ParsedAs(GroupedLeft(Toks[1], op1, Toks[3], op2, Toks[5]))
    /\ EvaluatesTo(<<<<"1">>, <<"+">>, <<"2">>, <<"*">>, <<"3">>>>, Num(7))
    /\ EvaluatesTo(<<<<"2">>, <<"*">>, <<"3">>, <<"+">>, <<"4">>>>, Num(10))
    /\ EvaluatesTo(<<<<"1">>, <<"^">>, <<"2">>, <<"+">>, <<"3">>>>, Num(4))

\* a op1 b op2 c with op2 binding tighter has been parsed and evaluated
C1_Witness ==
    /\ IsFlat /\ EvaluateRan
    /\ StatedPrecedence(Toks[4][2]) > StatedPrecedence(Toks[2][2])
    /\ ast.r[2][4][1] = "BinOp"

(***************************************************************************)
(* C2.  Left associativity, Power included: the tokens a op1 b op2 c with  *)
(* op1 and op2 of equal precedence parse as (a op1 b) op2 c; "2^3^2"       *)
(* evaluates to 64.                                                        *)
(***************************************************************************)
C2_LeftAssociative ==
    /\ IsFlat /\ StatedPrecedence(Toks[4][2]) = StatedPrecedence(Toks[2][2]) =>
         ParsedAs(GroupedLeft(Toks[1], Toks[2][2], Toks[3], Toks[4][2], Toks[5]))
    /\ EvaluatesTo(<<<<"2">>, <<"^">>, <<"3">>, <<"^">>, <<"2">>>>, Num(64))

\* a ^ b ^ c has been parsed and evaluated
C2_Witness ==
    /\ IsFlat /\ EvaluateRan
    /\ Toks[2][2] = "Power" /\ Toks[4][2] = "Power"
    /\ ast.r[2][3][1] = "BinOp"

(***************************************************************************)
(* C3.  Unary minus applies to the primary that follows it: the tokens     *)
(* - p op b, p a primary, parse as (-p) op b; "-2 ^ 3" evaluates to -8 and *)
(* "-(2 + 3)" to -5.                                                       *)
(***************************************************************************)
\* the tokens are - p op b, and p (the tokens between) is one primary
IsUnaryShape ==
    /\ ParseRan
    /\ Len(Toks) >= 4
    /\ Toks[1] = TOperator("Subtract")
    /\ IsOperator(Toks[Len(Toks) - 1])
    /\ IsOperand(Toks[Len(Toks)])
    /\ LET p == parse_primary(SubSeq(Toks, 2, Len(Toks) - 2), 0)
       IN IsOk(p.r) /\ p.current = Len(Toks) - 3

PrimaryOfUnaryShape == parse_primary(SubSeq(Toks, 2, Len(Toks) - 2), 0).r[2]

C3_UnaryMinusBindsTightest ==
    /\ IsUnaryShape =>
         ParsedAs(BinOp(Toks[Len(Toks) - 1][2], UnaryMinus(PrimaryOfUnaryShape),
                        Leaf(Toks[Len(Toks)])))
    /\ EvaluatesTo(<<<<"-">>, <<"2">>, <<"^">>, <<"3">>>>, Num(-8))
    /\ EvaluatesTo(<<<<"-">>, <<"(">>, <<"2">>, <<"+">>, <<"3">>, <<")">>>>, Num(-5))

\* - ( a op' b ) ^ c has been parsed and evaluated
C3_Witness ==
    /\ IsUnaryShape /\ EvaluateRan
    /\ Toks[2] = TLParen
    /\ Toks[Len(Toks) - 1][2] = "Power"

(***************************************************************************)
(* C4.  Parentheses override precedence: ( a op1 b ) op2 c parses as       *)
(* (a op1 b) op2 c and a op1 ( b op2 c ) as a op1 (b op2 c), whatever the  *)
(* precedences, with no node for the parentheses; "(1 + 2) * 3" is 9.      *)
(***************************************************************************)
IsParenLeft ==
    /\ ParseRan
    /\ Len(Toks) = 7
    /\ Toks[1] = TLParen /\ IsOperand(Toks[2]) /\ IsOperator(Toks[3])
    /\ IsOperand(Toks[4]) /\ Toks[5] = TRParen /\ IsOperator(Toks[6])
    /\ IsOperand(Toks[7])

IsParenRight ==
    /\ ParseRan
    /\ Len(Toks) = 7
    /\ IsOperand(Toks[1]) /\ IsOperator(Toks[2]) /\ Toks[3] = TLParen
    /\ IsOperand(Toks[4]) /\ IsOperator(Toks[5]) /\ IsOperand(Toks[6])
    /\ Toks[7] = TRParen

C4_ParenthesesOverride ==
    /\ IsParenLeft =>
         ParsedAs(GroupedLeft(Toks[2], Toks[3][2], Toks[4], Toks[6][2], Toks[7]))
    /\ IsParenRight =>
         ParsedAs(GroupedRight(Toks[1], Toks[2][2], Toks[4], Toks[5][2], Toks[6]))
    /\ EvaluatesTo(<<<<"(">>, <<"1">>, <<"+">>, <<"2">>, <<")">>, <<"*">>, <<"3">>>>,
                   Num(9))

\* ( a + b ) ^ c, against the precedences, has been parsed and evaluated
C4_Witness ==
    /\ IsParenLeft /\ EvaluateRan
    /\ Toks[3][2] = "Add" /\ Toks[6][2] = "Power"
    /\ ast.r[2][3][1] = "BinOp"

(***************************************************************************)
(* C5.  Division by zero: a tree holding a Divide node whose right operand *)
(* evaluates to zero, at any depth, evaluates to Err(DivisionByZero),      *)
(* never to a number; "1 / 0" and "1 / (2 - 2)" do.  (Trees the model      *)
(* cannot decide, Unknown, are left out.)                                  *)
(***************************************************************************)
RECURSIVE DividesByZero(_)
DividesByZero(e) ==
    IF e[1] = "UnaryMinus" THEN DividesByZero(e[2])
    ELSE IF e[1] = "BinOp"
    THEN \/ /\ e[2] = "Divide"
            /\ LET r == evaluate(e[4]) IN IsOk(r) /\ IsExactNum(r[2]) /\ r[2][1] = 0
         \/ DividesByZero(e[3])
         \/ DividesByZero(e[4])
    ELSE FALSE

FailsWith(ls, e) == input = Join(ls) /\ EvaluateRan => value = Err(e)

C5_DivisionByZero ==
    /\ EvaluateRan /\ DividesByZero(ast.r[2]) /\ value # Unknown =>
         value = Err(DivisionByZero)
    /\ FailsWith(<<<<"1">>, <<"/">>, <<"0">>>>, DivisionByZero)
    /\ FailsWith(<<<<"1">>, <<"/">>, <<"(">>, <<"2">>, <<"-">>, <<"2">>, <<")">>>>,
                 DivisionByZero)

\* a division by a compound expression that is zero, below the root, has failed
C5_Witness ==
    /\ EvaluateRan /\ value = Err(DivisionByZero)
    /\ ast.r[2][1] = "BinOp" /\ ast.r[2][2] # "Divide"
    /\ ast.r[2][4][1] = "BinOp" /\ ast.r[2][4][2] = "Divide"
    /\ evaluate(ast.r[2][4][4]) = Ok(Num(0))

(***************************************************************************)
(* C6.  Truncated input: a token sequence that is a proper prefix of a     *)
(* well-formed expression and is not well-formed itself (empty, ending     *)
(* after an operator or a unary minus, or with a parenthesis left open)    *)
(* is rejected with InvalidExpression.                                     *)
(***************************************************************************)
RECURSIVE Shape(_, _, _, _)
\* reading ts from token k at parenthesis depth `depth`, an operand or an
\* operator being due: whether ts can be continued to a well-formed
\* expression, and whether it is one
Shape(ts, k, depth, operandDue) ==
    IF k > Len(ts) THEN [viable |-> TRUE, complete |-> ~operandDue /\ depth = 0]
    ELSE IF operandDue
    THEN IF IsOperand(ts[k]) THEN Shape(ts, k + 1, depth, FALSE)
         ELSE IF ts[k] = TOperator("Subtract") THEN Shape(ts, k + 1, depth, TRUE)
         ELSE IF ts[k] = TLParen THEN Shape(ts, k + 1, depth + 1, TRUE)
         ELSE [viable |-> FALSE, complete |-> FALSE]
    ELSE IF IsOperator(ts[k]) THEN Shape(ts, k + 1, depth, TRUE)
         ELSE IF ts[k] = TRParen /\ depth > 0 THEN Shape(ts, k + 1, depth - 1, FALSE)
         ELSE [viable |-> FALSE, complete |-> FALSE]

Truncated(ts) ==
    LET sh == Shape(ts, 1, 0, TRUE) IN sh.viable /\ ~sh.complete

C6_TruncatedInputRejected ==
    ParseRan /\ Truncated(Toks) => IsErr(ast.r) /\ ErrKind(ast.r) = "InvalidExpression"

\* an input ending inside an open parenthesis, after an operand, was rejected
C6_Witness ==
    /\ ParseRan /\ Truncated(Toks)
    /\ Len(Toks) >= 4 /\ IsOperand(Toks[Len(Toks)])
    /\ ast.r = Err(InvalidExpression("Expected ')'"))

(***************************************************************************)
(* C7.  A successful parse has consumed every token: the cursor equals the *)
(* number of tokens.                                                       *)
(***************************************************************************)
C7_ConsumesAllTokens ==
    ParseRan /\ IsOk(ast.r) => ast.current = Len(Toks)

(***************************************************************************)
(* C8.  Round trip: for every expression the parser returns, tokenizing    *)
(* and parsing its Display rendering succeeds and gives an expression that *)
(* evaluates to the same result.  Results the model does not track count   *)
(* as the same only when the expressions are the same.                     *)
(***************************************************************************)
SameResult ==
    /\ reparsed.value = value
    /\ \/ IsErr(value)
       \/ IsOk(value) /\ IsExactNum(value[2])
       \/ reparsed.ast.r = ast.r

RoundTrips ==
    IsOk(reparsed.tokens) /\ IsOk(reparsed.ast.r) /\ SameResult

C8_RoundTrip == ReprocessRan => RoundTrips

RECURSIVE FiniteLiterals(_)
FiniteLiterals(e) ==
    IF e[1] \in {"Literal", "Scientific"} THEN e[2] # Infinity
    ELSE IF e[1] = "UnaryMinus" THEN FiniteLiterals(e[2])
    ELSE FiniteLiterals(e[3]) /\ FiniteLiterals(e[4])

\* amended: the round trip of every parsed expression whose literals are finite
C8_RoundTripFinite == ReprocessRan /\ FiniteLiterals(ast.r[2]) => RoundTrips

\* a subtraction of a parenthesized subtraction has made the round trip
C8_Witness ==
    /\ ReprocessRan /\ RoundTrips
    /\ ast.r[2][1] = "BinOp" /\ ast.r[2][2] = "Subtract"
    /\ ast.r[2][4][1] = "BinOp" /\ ast.r[2][4][2] = "Subtract"
    /\ rendered # input

(***************************************************************************)
(* C9.  A number text <base><sep><exponent>, sep being e or E, with a base *)
(* that reads as a float and an exponent that reads as an i32, tokenizes   *)
(* to the one token Scientific(base, exponent).                            *)
(***************************************************************************)
C9_ScientificEitherSeparator ==
    TokenizeRan =>
      \A k \in 1..Len(input) :
         LET base == ParseF64(SubSeq(input, 1, k - 1))
             exponent == ParseI32(SubSeq(input, k + 1, Len(input)))
         IN input[k] \in {"e", "E"} /\ IsOk(base) /\ IsOk(exponent) =>
              tokens = Ok(<<TScientific(base[2], exponent[2])>>)

(***************************************************************************)
(* C10.  The sign of an exponent belongs to the number: a + or - right     *)
(* after the e or E of a number is scanned into the number's text and is   *)
(* no Operator token, and every other + or - is an Operator token of its   *)
(* own; "1.23e-4 + 5.67e+8" is Scientific(1.23, -4), Add,                  *)
(* Scientific(5.67, 8).                                                    *)
(***************************************************************************)
SignsOutsideExponents(sign) ==
    Cardinality({k \in 1..Len(input) :
                   input[k] = sign /\ ~(k > 1 /\ input[k - 1] \in {"e", "E"})})

OperatorTokens(op) == Cardinality({k \in 1..Len(Toks) : Toks[k] = TOperator(op)})

HasExponentSign ==
    \E k \in 1..(Len(input) - 1) : input[k] \in {"e", "E"} /\ input[k + 1] \in {"+", "-"}

C10_ExponentSignInNumber ==
    /\ TokenizeRan /\ IsOk(tokens) =>
         /\ OperatorTokens("Add") = SignsOutsideExponents("+")
         /\ OperatorTokens("Subtract") = SignsOutsideExponents("-")
    /\ input # <<>> /\ input[1] \in Digits \cup {"."} =>
         LET sc == scan_number(input, 1, <<>>, FALSE, FALSE)
         IN \A k \in 1..(Len(input) - 1) :
              k < sc.pos /\ input[k] \in {"e", "E"} /\ input[k + 1] \in {"+", "-"} =>
                sc.pos > k + 1 /\ sc.number[k + 1] = input[k + 1]
    /\ TokenizeRan /\ input = Join(<<<<"1", ".", "2", "3", "e", "-", "4">>, <<"+">>,
                                     <<"5", ".", "6", "7", "e", "+", "8">>>>) =>
         tokens = Ok(<<TScientific(<<123, 100>>, -4), TOperator("Add"),
                       TScientific(<<567, 100>>, 8)>>)

\* a text with a signed exponent and a + of its own has been tokenized
C10_Witness ==
    /\ TokenizeRan /\ IsOk(tokens) /\ HasExponentSign
    /\ OperatorTokens("Add") = 1
    /\ \E k \in 1..Len(Toks) : Toks[k][1] = "Scientific" /\ Toks[k][3] < 0

(***************************************************************************)
(* C11.  A second decimal point inside one number: when number scanning    *)
(* meets a '.' after a '.' it has accumulated in the same number, as in    *)
(* "1.2.3", tokenize returns an InvalidNumber error and no tokens.         *)
(***************************************************************************)
\* n[k] is a character number scanning accumulates
Accumulated(n, k) ==
    \/ n[k] \in Digits \cup {".", "e", "E"}
    \/ n[k] \in {"+", "-"} /\ k > 1 /\ n[k - 1] \in {"e", "E"}

Count(n, S) == Cardinality({k \in 1..Len(n) : n[k] \in S})

\* the text n starts a number whose scanning meets a second '.' at n[j]
SecondPointAt(n, j) ==
    /\ n[1] \in Digits \cup {"."}
    /\ n[j] = "."
    /\ \A k \in 1..(j - 1) : Accumulated(n, k)
    /\ Count(SubSeq(n, 1, j - 1), {"."}) = 1
    /\ Count(SubSeq(n, 1, j - 1), {"e", "E"}) <= 1

\* a token of the input starts at index i: what is before it tokenizes, and
\* ends in whitespace or in an operator or parenthesis character
TokenStartsAt(i) ==
    /\ i \in 1..Len(input)
    /\ i > 1 => IsWhitespace(input[i - 1]) \/ input[i - 1] \in SymbolChars
    /\ IsOk(tokenize(SubSeq(input, 1, i - 1)))

MeetsSecondPoint ==
    \E i \in 1..Len(input) :
       /\ TokenStartsAt(i)
       /\ \E j \in 2..(Len(input) - i + 1) :
             SecondPointAt(SubSeq(input, i, Len(input)), j)

C11_SecondPointInvalidNumber ==
    TokenizeRan /\ MeetsSecondPoint =>
      IsErr(tokens) /\ ErrKind(tokens) = "InvalidNumber"

\* amended: the error is InvalidExpression("Multiple decimal points in number")
C11_SecondPointInvalidExpression ==
    TokenizeRan /\ MeetsSecondPoint =>
      tokens = Err(InvalidExpression("Multiple decimal points in number"))

\* "2 + 1.2.3" has been rejected at the second point of its second number
C11_Witness ==
    /\ TokenizeRan /\ MeetsSecondPoint /\ IsErr(tokens)
    /\ input = Join(<<<<"2">>, <<"+">>, <<"1", ".", "2", ".", "3">>>>)

(***************************************************************************)
(* C12.  Display of BinOp(op, lhs, rhs): the left child is wrapped in      *)
(* parentheses exactly when it is a BinOp of strictly lower precedence     *)
(* than op, the right child exactly when it is a BinOp of lower or equal   *)
(* precedence; other children are never wrapped.  The parse of             *)
(* "2 + 3 * 4" renders as "2 + 3 * 4", the parse of "(2 + 3) * 4" as       *)
(* "(2 + 3) * 4".                                                          *)
(***************************************************************************)
RenderRan == rendered # NotRun

RECURSIVE SubExprs(_)
SubExprs(e) ==
    {e} \cup (IF e[1] = "UnaryMinus" THEN SubExprs(e[2])
              ELSE IF e[1] = "BinOp" THEN SubExprs(e[3]) \cup SubExprs(e[4])
              ELSE {})

WrapsLeft(op, child) ==
    child[1] = "BinOp" /\ StatedPrecedence(child[2]) < StatedPrecedence(op)

WrapsRight(op, child) ==
    child[1] = "BinOp" /\ StatedPrecedence(child[2]) <= StatedPrecedence(op)

Shown(child, wrapped) ==
    IF wrapped THEN <<"(">> \o fmt(child) \o <<")">> ELSE fmt(child)

\* the text the rule gives for the BinOp e, its children rendered by fmt
ByRule(e) ==
    Shown(e[3], WrapsLeft(e[2], e[3])) \o <<" ", symbol(e[2]), " ">>
      \o Shown(e[4], WrapsRight(e[2], e[4]))

C12_DisplayParentheses ==
    RenderRan =>
      /\ ast.r[2][1] = "BinOp" => rendered = ByRule(ast.r[2])
      /\ \A e \in SubExprs(ast.r[2]) : e[1] = "BinOp" => fmt(e) = ByRule(e)
      /\ input = Join(<<<<"2">>, <<"+">>, <<"3">>, <<"*">>, <<"4">>>>) =>
           rendered = input
      /\ input = Join(<<<<"(", "2">>, <<"+">>, <<"3", ")">>, <<"*">>, <<"4">>>>) =>
           rendered = input

\* 2 - (3 - 0) has been rendered with its right child wrapped
C12_Witness ==
    /\ RenderRan
    /\ ast.r[2] = BinOp("Subtract", Literal(Num(2)),
                        BinOp("Subtract", Literal(Num(3)), Literal(Num(0))))
    /\ rendered = <<"2", " ", "-", " ", "(", "3", " ", "-", " ", "0", ")">>

(***************************************************************************)
(* C13.  The parser terminates by progress: on every token sequence parse  *)
(* eventually returns, Ok or Err; the cursor never decreases; and every    *)
(* call of parse_primary or parse_expression that returns Ok has moved the *)
(* cursor at least one token past its value at the call's entry.           *)
(***************************************************************************)
ParseReturned == phase \in {"parsed", "failed"}

\* the result the last return handed over
Returned == IF calls = <<>> THEN ast.r ELSE Top.ret

\* this step is the return of the running call
Returns == calls # <<>> /\ Len(calls') < Len(calls)

C13_TerminatesByProgress ==
    /\ <>ParseReturned
    /\ [][ast'.current >= ast.current]_vars
    /\ [][Returns /\ IsOk(Returned') => ast'.current >= Top.entry + 1]_vars

\* the step machine returns what the function parse returns, cursor included
StepsAgree == ParseReturned => ast = parse(tokens[2])

\* a parse of at least five tokens has returned Ok, through a parenthesis
C13_Witness ==
    /\ ParseReturned /\ IsOk(ast.r)
    /\ Len(tokens[2]) >= 5 /\ ast.current = Len(tokens[2])
    /\ \E k \in 1..Len(tokens[2]) : tokens[2][k] = TLParen

(***************************************************************************)
(* C14.  A leading e or E enters number scanning: when the character at a  *)
(* token start is e or E the tokenizer scans a number from it, so that     *)
(* "e5" fails with InvalidNumber carrying the accumulated text, and the    *)
(* character is not rejected with InvalidExpression("Unexpected            *)
(* character: ...").                                                       *)
(***************************************************************************)
UnexpectedCharacter(ch) == Err(InvalidExpression(<<"Unexpected character: ", ch>>))

\* a token of the input starts at index i with an e or E
LeadingE(i) == TokenStartsAt(i) /\ input[i] \in {"e", "E"}

C14_LeadingEScansNumber ==
    TokenizeRan =>
      /\ \A i \in 1..Len(input) : LeadingE(i) => tokens # UnexpectedCharacter(input[i])
      /\ input = <<"e", "5">> => tokens = Err(InvalidNumber(<<"e", "5">>))

\* amended: number scanning is entered on a digit or '.' only, and an e or E
\* at a token start is rejected as an unexpected character
C14_LeadingERejected ==
    TokenizeRan =>
      \A i \in 1..Len(input) : LeadingE(i) => tokens = UnexpectedCharacter(input[i])

\* "2 * E5" has been rejected at its E
C14_Witness ==
    /\ TokenizeRan /\ LeadingE(5)
    /\ input = Join(<<<<"2">>, <<"*">>, <<"E", "5">>>>)
    /\ tokens = UnexpectedCharacter("E")

(***************************************************************************)
(* C15.  evaluate is total and DivisionByZero is its only failure: it      *)
(* returns Ok(number) when no Divide node of the tree has a right operand  *)
(* evaluating to zero, and Err(DivisionByZero) otherwise, never another    *)
(* error; the error of a subtree is returned unchanged by every enclosing  *)
(* UnaryMinus and BinOp node.  (Trees the model cannot decide, Unknown,    *)
(* are either of the two.)                                                 *)
(***************************************************************************)
\* the node e returns the error of its operand unchanged
Propagates(e) ==
    /\ e[1] = "UnaryMinus" /\ IsErr(evaluate(e[2])) => evaluate(e) = evaluate(e[2])
    /\ e[1] = "BinOp" /\ IsErr(evaluate(e[3])) => evaluate(e) = evaluate(e[3])
    /\ e[1] = "BinOp" /\ IsOk(evaluate(e[3])) /\ IsErr(evaluate(e[4])) =>
         evaluate(e) = evaluate(e[4])

C15_EvaluateTotal ==
    EvaluateRan =>
      /\ IsOk(value) \/ value = Err(DivisionByZero) \/ value = Unknown
      /\ value # Unknown => (IsOk(value) <=> ~DividesByZero(ast.r[2]))
      /\ \A e \in SubExprs(ast.r[2]) : Propagates(e)

\* the error of 2 / 0 has come up through a unary minus and an addition
C15_Witness ==
    /\ EvaluateRan /\ value = Err(DivisionByZero)
    /\ ast.r[2][1] = "BinOp" /\ ast.r[2][2] = "Add"
    /\ ast.r[2][3] = UnaryMinus(BinOp("Divide", Literal(Num(2)), Literal(Num(0))))
    /\ IsOk(evaluate(ast.r[2][4]))

=============================================================================
